---- MODULE Spec2Model ----
(***************************************************************************)
(* Staff (instructor) grading of edx-ora: the selection of a submission    *)
(* for an instructor (staff_grading_util.py) and the save_grade view       *)
(* (views.py), run by concurrent request workers over one shared           *)
(* Submission table.  Every database query of the code is one atomic step. *)
(***************************************************************************)
EXTENDS Integers, Sequences, FiniteSets, TLC

\* ------------------------------------------------------------------ bounds
MaxSubs == 2            \* rows the Submission table may hold
MaxSubsSelect == MaxSubs + 1    \* the same, when only selections are served
MaxGrades == 1          \* rows the Grader table may hold
MaxMinToUseML == 1      \* largest configured settings.MIN_TO_USE_ML

Workers == {"w1", "w2"}
Courses == {"A", "B"}
Locations == {"L1", "L2"}
\* The problems students answer: course A has two, course B none yet
Problems == {<<"A", "L1">>, <<"A", "L2">>}

\* SubmissionState (controller.models), as views.py line 108 spells it
waiting_to_be_graded == "W"
being_graded == "C"
finished == "F"

NoParam == "None"       \* request.POST.get of an absent key
SubmissionIds == 1..MaxSubs         \* the ids a save_grade request may name
RowIds == 1..MaxSubsSelect          \* the ids a row may have

VARIABLES
    Submission,         \* the Submission table: row i has id i
    Grader,             \* the grade records committed so far
    MIN_TO_USE_ML,      \* settings.MIN_TO_USE_ML, fixed at start
    pc,                 \* pc[w]: where worker w is in the request it serves
                        \* ("off": w is not in the pool)
    req,                \* req[w]: the request worker w serves
    local,              \* local[w]: the local variables of w's selection call
    result,             \* result[w]: what w's request returned (pc[w] = "done")
    claims              \* history: claims[i] = ids handed out for row i and
                        \* neither graded nor skipped since

vars == <<Submission, Grader, MIN_TO_USE_ML, pc, req, local, result, claims>>

NoRow == [id |-> 0, course_id |-> "", location |-> "", state |-> "",
          next_grader_type |-> "", previous_grader_type |-> ""]

NoLocal == [locations_for_course |-> <<>>, idx |-> 0, check_for_ML |-> TRUE,
            subs_graded |-> 0, to_be_graded |-> NoRow]

NoReq == [op |-> "none", location |-> "", course_id |-> "", check_for_ML |-> TRUE,
          submission_id |-> 0, score |-> <<>>, skipped |-> FALSE]

\* found/success, the submission id (selection), the error, the number of
\* calls of the grade store (save_grade), and the two counts
\* (count_submissions_graded_and_pending_instructor)
NoResult == [success |-> FALSE, sub_id |-> 0, error |-> "none", commits |-> 0,
             graded |-> 0, pending |-> 0]

Ids == DOMAIN Submission

\* ------------------------------------------------ staff_grading_util.py

\* The graded rows with "ML" for "IN"
finished_submissions_graded_by_ml(location) ==
    {i \in Ids : /\ Submission[i].location = location
                 /\ Submission[i].previous_grader_type \in {"ML"}
                 /\ Submission[i].state \in {finished}}

\* lines 33-42
finished_submissions_graded_by_instructor(location) ==
    {i \in Ids : /\ Submission[i].location = location
                 /\ Submission[i].previous_grader_type \in {"IN"}
                 /\ Submission[i].state \in {finished}}

\* The pending rows whatever state_in the caller passes
submissions_pending_instructor_default_states(location, state_in) ==
    {i \in Ids : /\ Submission[i].location = location
                 /\ Submission[i].next_grader_type \in {"IN"}
                 /\ Submission[i].state \in {being_graded, waiting_to_be_graded}}

\* lines 45-54
submissions_pending_instructor(location, state_in) ==
    {i \in Ids : /\ Submission[i].location = location
                 /\ Submission[i].next_grader_type \in {"IN"}
                 /\ Submission[i].state \in state_in}

\* The gate with <= for <
pool_open_at_threshold(subs_graded, subs_pending, check_for_ML) ==
    (subs_graded + subs_pending) <= MIN_TO_USE_ML \/ ~check_for_ML

\* The gate without "or not check_for_ML"
pool_open_always_gated(subs_graded, subs_pending, check_for_ML) ==
    (subs_graded + subs_pending) < MIN_TO_USE_ML

\* line 77: the pool is open
pool_open(subs_graded, subs_pending, check_for_ML) ==
    (subs_graded + subs_pending) < MIN_TO_USE_ML \/ ~check_for_ML

\* The queryset without its state filter
to_be_graded_query_any_state(location) ==
    {i \in Ids : /\ Submission[i].location = location
                 /\ Submission[i].next_grader_type \in {"IN", "ML"}}

\* The queryset with next_grader_type "IN" alone
to_be_graded_query_instructor_only(location) ==
    {i \in Ids : /\ Submission[i].location = location
                 /\ Submission[i].state = waiting_to_be_graded
                 /\ Submission[i].next_grader_type \in {"IN"}}

\* lines 78-82: the queryset to_be_graded
to_be_graded_query(location) ==
    {i \in Ids : /\ Submission[i].location = location
                 /\ Submission[i].state = waiting_to_be_graded
                 /\ Submission[i].next_grader_type \in {"IN", "ML"}}

\* lines 117-118: the distinct locations of the course's rows; the query has
\* no ORDER BY, so the list may come back in any order
locations_of(course_id) ==
    {Submission[i].location : i \in {j \in Ids : Submission[j].course_id = course_id}}

Orderings(S) ==
    {s \in [1..Cardinality(S) -> S] : \A x \in S : \E i \in DOMAIN s : s[i] = x}

\* The loops turned inside out: each location is tried with the gate and then
\* without it, before the next location
for_location_returns_pass_per_location(w, found, sub_id, error) ==
    LET l == local[w] IN
    IF req[w].op = "location" \/ found \/ error # "none"
    THEN /\ pc' = [pc EXCEPT ![w] = "done"]
         /\ local' = [local EXCEPT ![w] = NoLocal]
         /\ result' = [result EXCEPT ![w] = [NoResult EXCEPT !.success = found,
                                             !.sub_id = sub_id, !.error = error]]
    ELSE IF l.check_for_ML
    THEN /\ pc' = [pc EXCEPT ![w] = "count_graded"]
         /\ local' = [local EXCEPT ![w] = [NoLocal EXCEPT
                          !.locations_for_course = l.locations_for_course,
                          !.idx = l.idx,
                          !.check_for_ML = FALSE]]
         /\ UNCHANGED result
    ELSE IF l.idx < Len(l.locations_for_course)
    THEN /\ pc' = [pc EXCEPT ![w] = "count_graded"]
         /\ local' = [local EXCEPT ![w] = [NoLocal EXCEPT
                          !.locations_for_course = l.locations_for_course,
                          !.idx = l.idx + 1,
                          !.check_for_ML = TRUE]]
         /\ UNCHANGED result
    ELSE /\ pc' = [pc EXCEPT ![w] = "done"]
         /\ local' = [local EXCEPT ![w] = NoLocal]
         /\ result' = [result EXCEPT ![w] = NoResult]

\* The claim without line 89
claimed_row_still_waiting(row) ==
    [row EXCEPT !.next_grader_type = "IN"]

\* The claim without line 90
claimed_row_keeps_grader_type(row) ==
    [row EXCEPT !.state = being_graded]

\* lines 89-90: the fetched row, claimed for the instructor
claimed_row(row) ==
    [row EXCEPT !.state = being_graded, !.next_grader_type = "IN"]

\* The location the call of worker w is looking at
current_location(w) == local[w].locations_for_course[local[w].idx]

\* get_single_instructor_grading_item_for_location returns (found, sub_id) to
\* worker w, or raises: the view gets it (views.py line 80), or the loops of
\* get_single_instructor_grading_item go on (lines 120-132)
for_location_returns(w, found, sub_id, error) ==
    LET l == local[w] IN
    IF req[w].op = "location" \/ found \/ error # "none"
    THEN /\ pc' = [pc EXCEPT ![w] = "done"]
         /\ local' = [local EXCEPT ![w] = NoLocal]
         /\ result' = [result EXCEPT ![w] = [NoResult EXCEPT !.success = found,
                                             !.sub_id = sub_id, !.error = error]]
    ELSE IF l.idx < Len(l.locations_for_course)
    THEN /\ pc' = [pc EXCEPT ![w] = "count_graded"]
         /\ local' = [local EXCEPT ![w] = [NoLocal EXCEPT
                          !.locations_for_course = l.locations_for_course,
                          !.idx = l.idx + 1,
                          !.check_for_ML = l.check_for_ML]]
         /\ UNCHANGED result
    ELSE IF l.check_for_ML
    THEN /\ pc' = [pc EXCEPT ![w] = "count_graded"]
         /\ local' = [local EXCEPT ![w] = [NoLocal EXCEPT
                          !.locations_for_course = l.locations_for_course,
                          !.idx = 1,
                          !.check_for_ML = FALSE]]
         /\ UNCHANGED result
    ELSE /\ pc' = [pc EXCEPT ![w] = "done"]
         /\ local' = [local EXCEPT ![w] = NoLocal]
         /\ result' = [result EXCEPT ![w] = NoResult]

\* views.py line 80 (check_for_ML defaults to True), or a direct call of
\* get_single_instructor_grading_item_for_location(location, check_for_ML)
call_for_location(w, location, check_for_ML) ==
    /\ pc[w] = "idle"
    /\ pc' = [pc EXCEPT ![w] = "count_graded"]
    /\ req' = [req EXCEPT ![w] = [NoReq EXCEPT !.op = "location",
                                  !.location = location,
                                  !.check_for_ML = check_for_ML]]
    /\ local' = [local EXCEPT ![w] = [NoLocal EXCEPT
                     !.locations_for_course = <<location>>,
                     !.idx = 1,
                     !.check_for_ML = check_for_ML]]
    /\ UNCHANGED <<Submission, Grader, MIN_TO_USE_ML, result, claims>>

\* views.py line 85: get_single_instructor_grading_item(course_id), lines 115-119
call_for_course(w, course_id) ==
    /\ pc[w] = "idle"
    /\ req' = [req EXCEPT ![w] = [NoReq EXCEPT !.op = "course",
                                  !.course_id = course_id]]
    /\ \E locs \in Orderings(locations_of(course_id)) :
          IF Len(locs) = 0
          THEN /\ pc' = [pc EXCEPT ![w] = "done"]
               /\ UNCHANGED local
          ELSE /\ pc' = [pc EXCEPT ![w] = "count_graded"]
               /\ local' = [local EXCEPT ![w] = [NoLocal EXCEPT
                                !.locations_for_course = locs,
                                !.idx = 1,
                                !.check_for_ML = TRUE]]
    /\ UNCHANGED <<Submission, Grader, MIN_TO_USE_ML, result, claims>>

\* line 74
count_graded(w) ==
    /\ pc[w] = "count_graded"
    /\ pc' = [pc EXCEPT ![w] = "count_pending"]
    /\ local' = [local EXCEPT ![w].subs_graded =
          Cardinality(finished_submissions_graded_by_instructor(current_location(w)))]
    /\ UNCHANGED <<Submission, Grader, MIN_TO_USE_ML, req, result, claims>>

\* lines 75-77, and line 101 when the pool is closed
count_pending(w) ==
    /\ pc[w] = "count_pending"
    /\ LET subs_pending == Cardinality(
               submissions_pending_instructor(current_location(w), {being_graded}))
       IN IF pool_open(local[w].subs_graded, subs_pending, local[w].check_for_ML)
          THEN /\ pc' = [pc EXCEPT ![w] = "pool_count"]
               /\ local' = [local EXCEPT ![w].subs_graded = 0]
               /\ UNCHANGED result
          ELSE for_location_returns(w, FALSE, 0, "none")
    /\ UNCHANGED <<Submission, Grader, MIN_TO_USE_ML, req, claims>>

\* line 86 (line 84 only logs the same count), and line 101 when the pool is
\* empty
pool_count(w) ==
    /\ pc[w] = "pool_count"
    /\ IF Cardinality(to_be_graded_query(current_location(w))) > 0
       THEN /\ pc' = [pc EXCEPT ![w] = "fetch"]
            /\ UNCHANGED <<local, result>>
       ELSE for_location_returns(w, FALSE, 0, "none")
    /\ UNCHANGED <<Submission, Grader, MIN_TO_USE_ML, req, claims>>

\* line 87: to_be_graded[0] runs the query again, with LIMIT 1 and no ORDER BY:
\* any row of the pool may come back, and an empty pool raises IndexError
fetch(w) ==
    /\ pc[w] = "fetch"
    /\ IF to_be_graded_query(current_location(w)) = {}
       THEN for_location_returns(w, FALSE, 0, "IndexError")
       ELSE /\ \E i \in to_be_graded_query(current_location(w)) :
                  local' = [local EXCEPT ![w].to_be_graded = Submission[i]]
            /\ pc' = [pc EXCEPT ![w] = "save"]
            /\ UNCHANGED result
    /\ UNCHANGED <<Submission, Grader, MIN_TO_USE_ML, req, claims>>

\* lines 89-98: save() writes every field of the fetched row
save(w) ==
    /\ pc[w] = "save"
    /\ LET row == claimed_row(local[w].to_be_graded) IN
          /\ Submission' = [Submission EXCEPT ![row.id] = row]
          /\ claims' = [claims EXCEPT ![row.id] = @ + 1]
          /\ for_location_returns(w, TRUE, row.id, "none")
    /\ UNCHANGED <<Grader, MIN_TO_USE_ML, req>>

\* The default of state_in without waiting_to_be_graded
default_state_in_being_graded_only == {being_graded}

\* line 45: the default of state_in
default_state_in == {being_graded, waiting_to_be_graded}

\* lines 57-61: the call and its first query,
\* finished_submissions_graded_by_instructor(location).count()
count_submissions_graded_and_pending_instructor(w, location) ==
    /\ pc[w] = "idle"
    /\ pc' = [pc EXCEPT ![w] = "counts_pending"]
    /\ req' = [req EXCEPT ![w] = [NoReq EXCEPT !.op = "counts", !.location = location]]
    /\ local' = [local EXCEPT ![w] = [NoLocal EXCEPT !.subs_graded =
          Cardinality(finished_submissions_graded_by_instructor(location))]]
    /\ UNCHANGED <<Submission, Grader, MIN_TO_USE_ML, result, claims>>

\* line 61: the second query, submissions_pending_instructor(location).count()
\* with the default state_in, and the return of the pair
counts_pending(w) ==
    /\ pc[w] = "counts_pending"
    /\ pc' = [pc EXCEPT ![w] = "done"]
    /\ local' = [local EXCEPT ![w] = NoLocal]
    /\ result' = [result EXCEPT ![w] = [NoResult EXCEPT
          !.success = TRUE,
          !.graded = local[w].subs_graded,
          !.pending = Cardinality(
              submissions_pending_instructor(req[w].location, default_state_in))]]
    /\ UNCHANGED <<Submission, Grader, MIN_TO_USE_ML, req, claims>>

\* ------------------------------------------------------------- views.py

NoSubmissionId == 0     \* the request carries no (or an empty) submission_id
NoScore == <<NoParam>>  \* the request carries no score

Scores == {<<"1", "0">>, <<"a", "b", "c">>, <<>>, NoScore}

Digits == {"0", "1", "2", "3", "4", "5", "6", "7", "8", "9"}

DigitValue(c) ==
    CASE c = "0" -> 0 [] c = "1" -> 1 [] c = "2" -> 2 [] c = "3" -> 3
      [] c = "4" -> 4 [] c = "5" -> 5 [] c = "6" -> 6 [] c = "7" -> 7
      [] c = "8" -> 8 [] c = "9" -> 9

RECURSIVE strip_left(_)
strip_left(s) == IF s # <<>> /\ Head(s) = " " THEN strip_left(Tail(s)) ELSE s

RECURSIVE strip_right(_)
strip_right(s) ==
    IF s # <<>> /\ s[Len(s)] = " " THEN strip_right(SubSeq(s, 1, Len(s) - 1)) ELSE s

RECURSIVE digits_value(_)
digits_value(s) ==
    IF s = <<>> THEN 0
    ELSE 10 * digits_value(SubSeq(s, 1, Len(s) - 1)) + DigitValue(s[Len(s)])

\* int(score or 0): an empty score counts as 0
int_empty_is_zero(score) ==
    IF score = <<>> THEN [ValueError |-> FALSE, value |-> 0]
    ELSE [ValueError |-> \E k \in DOMAIN score : score[k] \notin Digits, value |-> 0]

\* line 184: Python's int(score) of a string: surrounding blanks are dropped,
\* one sign is allowed, at least one decimal digit must follow and nothing
\* else; otherwise ValueError
int(score) ==
    LET t == strip_right(strip_left(score))
        signed == t # <<>> /\ Head(t) \in {"+", "-"}
        body == IF signed THEN Tail(t) ELSE t
        ok == body # <<>> /\ \A k \in DOMAIN body : body[k] \in Digits
    IN [ValueError |-> ~ok,
        value |-> IF ~ok THEN 0
                  ELSE IF signed /\ Head(t) = "-" THEN 0 - digits_value(body)
                  ELSE digits_value(body)]

\* The test with "not score" for "score is None"
required_parameter_missing_falsy_score(submission_id, score) ==
    submission_id = NoSubmissionId \/ score = NoScore \/ score = <<>>

\* lines 168-172
required_parameter_missing(submission_id, score) ==
    submission_id = NoSubmissionId \/ score = NoScore

\* staff_grading_util.set_instructor_grading_item_back_to_ml, called at line
\* 176: the release of a claim.  An unknown id and a row that is not being
\* graded are refused and nothing is written.
set_instructor_grading_item_back_to_ml(submission_id) ==
    IF submission_id \notin Ids
    THEN [success |-> FALSE, sub |-> "SubmissionNotFound", table |-> Submission]
    ELSE IF Submission[submission_id].state # being_graded
    THEN [success |-> FALSE, sub |-> "SubmissionNotClaimed", table |-> Submission]
    ELSE [success |-> TRUE, sub |-> "",
          table |-> [Submission EXCEPT
                        ![submission_id].next_grader_type = "ML",
                        ![submission_id].state = waiting_to_be_graded]]

\* grader_util.create_and_handle_grader_object, called at line 203: the grade
\* record is stored and the row marked finished, or (unknown id, or the store
\* fails: stored = FALSE) nothing is written
create_and_handle_grader_object(d, stored) ==
    IF d.submission_id \notin Ids \/ ~stored
    THEN [success |-> FALSE, table |-> Submission, grades |-> Grader]
    ELSE [success |-> TRUE,
          table |-> [Submission EXCEPT
                        ![d.submission_id].state = finished,
                        ![d.submission_id].previous_grader_type = d.grader_type],
          grades |-> Append(Grader, d)]

\* The error response without the message of the failure
skip_response_drops_message(success, sub) ==
    IF ~success THEN [success |-> FALSE, error |-> "none"]
    ELSE [success |-> TRUE, error |-> "none"]

\* The skip that always answers success
skip_response_always_success(success, sub) ==
    [success |-> TRUE, error |-> "none"]

\* lines 178-181
skip_response(success, sub) ==
    IF ~success THEN [success |-> FALSE, error |-> sub]
    ELSE [success |-> TRUE, error |-> "none"]

\* The grade that always answers success
grade_response_always_success(success) ==
    [success |-> TRUE, error |-> "none"]

\* lines 205-209
grade_response(success) ==
    IF ~success THEN [success |-> FALSE, error |-> "grade_save_error: Internal error"]
    ELSE [success |-> TRUE, error |-> "none"]

\* lines 191-201
grader_dict(submission_id, score) ==
    [submission_id |-> submission_id, score |-> score, grader_type |-> "IN"]

\* A released or graded row has no outstanding claim
released(table) ==
    [i \in RowIds |->
        IF i \in Ids /\ table[i].state # Submission[i].state /\ table[i].state # being_graded
        THEN 0 ELSE claims[i]]

\* save_grade with the score validated (lines 183-189) before the skip is
\* looked at (lines 174-181)
save_grade_validates_first(w, submission_id, score, skipped, stored) ==
    LET answer(r, commits) ==
            result' = [result EXCEPT ![w] = [NoResult EXCEPT !.success = r.success,
                                             !.error = r.error, !.commits = commits]]
    IN
    /\ pc[w] = "idle"
    /\ pc' = [pc EXCEPT ![w] = "done"]
    /\ req' = [req EXCEPT ![w] = [NoReq EXCEPT !.op = "save_grade",
                                  !.submission_id = submission_id,
                                  !.score = score, !.skipped = skipped]]
    /\ IF required_parameter_missing(submission_id, score)
       THEN /\ answer([success |-> FALSE, error |-> "required_parameter_missing"], 0)
            /\ UNCHANGED <<Submission, Grader, claims>>
       ELSE IF int(score).ValueError
       THEN /\ answer([success |-> FALSE,
                       error |-> "grade_save_error: Expected integer score"], 0)
            /\ UNCHANGED <<Submission, Grader, claims>>
       ELSE IF skipped
       THEN LET r == set_instructor_grading_item_back_to_ml(submission_id) IN
            /\ Submission' = r.table
            /\ claims' = released(r.table)
            /\ answer(skip_response(r.success, r.sub), 0)
            /\ UNCHANGED Grader
       ELSE LET r == create_and_handle_grader_object(
                         grader_dict(submission_id, int(score).value), stored) IN
            /\ Len(Grader) < MaxGrades
            /\ Submission' = r.table
            /\ Grader' = r.grades
            /\ claims' = released(r.table)
            /\ answer(grade_response(r.success), 1)
    /\ UNCHANGED <<MIN_TO_USE_ML, local>>

\* save_grade, lines 156-209, served by worker w; stored: whether the grade
\* store takes the record
save_grade(w, submission_id, score, skipped, stored) ==
    LET answer(r, commits) ==
            result' = [result EXCEPT ![w] = [NoResult EXCEPT !.success = r.success,
                                             !.error = r.error, !.commits = commits]]
    IN
    /\ pc[w] = "idle"
    /\ pc' = [pc EXCEPT ![w] = "done"]
    /\ req' = [req EXCEPT ![w] = [NoReq EXCEPT !.op = "save_grade",
                                  !.submission_id = submission_id,
                                  !.score = score, !.skipped = skipped]]
    /\ IF required_parameter_missing(submission_id, score)
       THEN /\ answer([success |-> FALSE, error |-> "required_parameter_missing"], 0)
            /\ UNCHANGED <<Submission, Grader, claims>>
       ELSE IF skipped
       THEN LET r == set_instructor_grading_item_back_to_ml(submission_id) IN
            /\ Submission' = r.table
            /\ claims' = released(r.table)
            /\ answer(skip_response(r.success, r.sub), 0)
            /\ UNCHANGED Grader
       ELSE IF int(score).ValueError
       THEN /\ answer([success |-> FALSE,
                       error |-> "grade_save_error: Expected integer score"], 0)
            /\ UNCHANGED <<Submission, Grader, claims>>
       ELSE LET r == create_and_handle_grader_object(
                         grader_dict(submission_id, int(score).value), stored) IN
            /\ Len(Grader) < MaxGrades
            /\ Submission' = r.table
            /\ Grader' = r.grades
            /\ claims' = released(r.table)
            /\ answer(grade_response(r.success), 1)
    /\ UNCHANGED <<MIN_TO_USE_ML, local>>

\* The response is sent and the worker is free again
respond(w) ==
    /\ pc[w] = "done"
    /\ pc' = [pc EXCEPT ![w] = "idle"]
    /\ req' = [req EXCEPT ![w] = NoReq]
    /\ result' = [result EXCEPT ![w] = NoResult]
    /\ UNCHANGED <<Submission, Grader, MIN_TO_USE_ML, local, claims>>

\* --------------------------------------------------------- environment

NextGraderTypes == {"IN", "ML", "PE"}

\* A student's answer arrives (the controller's submit view): a new row, waiting
\* for the grader its problem asks for
submit(course_id, location, next_grader_type, max_rows) ==
    /\ Len(Submission) < max_rows
    /\ Submission' = Append(Submission,
          [id |-> Len(Submission) + 1, course_id |-> course_id,
           location |-> location, state |-> waiting_to_be_graded,
           next_grader_type |-> next_grader_type, previous_grader_type |-> "NA"])
    /\ UNCHANGED <<Grader, MIN_TO_USE_ML, pc, req, local, result, claims>>

\* ------------------------------------------------------- specification

Init ==
    /\ Submission = <<>>
    /\ Grader = <<>>
    /\ MIN_TO_USE_ML \in 1..MaxMinToUseML
    /\ pc = [w \in Workers |-> "idle"]
    /\ req = [w \in Workers |-> NoReq]
    /\ local = [w \in Workers |-> NoLocal]
    /\ result = [w \in Workers |-> NoResult]
    /\ claims = [i \in RowIds |-> 0]

SaveGrade(w) ==
    \E submission_id \in SubmissionIds \cup {NoSubmissionId}, score \in Scores,
       skipped \in BOOLEAN :
          \E stored \in IF skipped \/ int(score).ValueError THEN {TRUE} ELSE BOOLEAN :
             save_grade(w, submission_id, score, skipped, stored)

Submit ==
    \E problem \in Problems, next_grader_type \in NextGraderTypes :
          submit(problem[1], problem[2], next_grader_type, MaxSubs)

SubmitSelect ==
    \E problem \in Problems, next_grader_type \in NextGraderTypes :
          submit(problem[1], problem[2], next_grader_type, MaxSubsSelect)

Next ==
    \/ \E w \in Workers, location \in Locations, check_for_ML \in BOOLEAN :
          call_for_location(w, location, check_for_ML)
    \/ \E w \in Workers, course_id \in Courses : call_for_course(w, course_id)
    \/ \E w \in Workers : count_graded(w)
    \/ \E w \in Workers : count_pending(w)
    \/ \E w \in Workers : pool_count(w)
    \/ \E w \in Workers : fetch(w)
    \/ \E w \in Workers : save(w)
    \/ \E w \in Workers, location \in Locations :
          count_submissions_graded_and_pending_instructor(w, location)
    \/ \E w \in Workers : counts_pending(w)
    \/ \E w \in Workers : respond(w)
    \/ \E w \in Workers : SaveGrade(w)
    \/ Submit

Spec == Init /\ [][Next]_vars

\* Requests served one after the other, by one worker; a row arrives only
\* between two requests
Server == CHOOSE w \in Workers : TRUE

SerialNext ==
    \/ \E location \in Locations, check_for_ML \in BOOLEAN :
          call_for_location(Server, location, check_for_ML)
    \/ \E course_id \in Courses : call_for_course(Server, course_id)
    \/ count_graded(Server)
    \/ count_pending(Server)
    \/ pool_count(Server)
    \/ fetch(Server)
    \/ save(Server)
    \/ \E location \in Locations :
          count_submissions_graded_and_pending_instructor(Server, location)
    \/ counts_pending(Server)
    \/ respond(Server)
    \/ SaveGrade(Server)
    \/ pc[Server] = "idle" /\ Submit

SpecSeq == Init /\ [][SerialNext]_vars

\* A grader grades or skips a row that is being graded
SaveGradeClaimed(w) ==
    \E submission_id \in {i \in Ids : Submission[i].state = being_graded},
       score \in Scores, skipped \in BOOLEAN :
          \E stored \in IF skipped \/ int(score).ValueError THEN {TRUE} ELSE BOOLEAN :
             save_grade(w, submission_id, score, skipped, stored)

\* The pool of workers is every worker, or the Server alone: a worker outside
\* the pool is "off" and serves nothing
InitPool ==
    /\ Submission = <<>>
    /\ Grader = <<>>
    /\ MIN_TO_USE_ML \in 1..MaxMinToUseML
    /\ \E pool \in {{Server}, Workers} :
          pc = [w \in Workers |-> IF w \in pool THEN "idle" ELSE "off"]
    /\ req = [w \in Workers |-> NoReq]
    /\ local = [w \in Workers |-> NoLocal]
    /\ result = [w \in Workers |-> NoResult]
    /\ claims = [i \in RowIds |-> 0]

\* The workers of the pool serve the location request of the view alone
\* (views.py line 80: the gate is on), and graders grade or skip only rows that
\* are being graded
GatedNext ==
    \/ \E w \in Workers, location \in Locations : call_for_location(w, location, TRUE)
    \/ \E w \in Workers : count_graded(w)
    \/ \E w \in Workers : count_pending(w)
    \/ \E w \in Workers : pool_count(w)
    \/ \E w \in Workers : fetch(w)
    \/ \E w \in Workers : save(w)
    \/ \E w \in Workers : respond(w)
    \/ \E w \in Workers : SaveGradeClaimed(w)
    \/ Submit

SpecGated == InitPool /\ [][GatedNext]_vars

\* Worker w has the store to itself: the others are between two requests, or
\* have their response ready
Alone(w) == \A v \in Workers \ {w} : pc[v] \in {"idle", "done"}

\* Two workers that take turns: a request starts when no other is under way.
\* The requests are calls for a location and grades or skips of rows that are
\* being graded.
TurnsNext ==
    \/ \E w \in Workers, location \in Locations, check_for_ML \in BOOLEAN :
          Alone(w) /\ call_for_location(w, location, check_for_ML)
    \/ \E w \in Workers : count_graded(w)
    \/ \E w \in Workers : count_pending(w)
    \/ \E w \in Workers : pool_count(w)
    \/ \E w \in Workers : fetch(w)
    \/ \E w \in Workers : save(w)
    \/ \E w \in Workers : respond(w)
    \/ \E w \in Workers : Alone(w) /\ SaveGradeClaimed(w)
    \/ (\A w \in Workers : pc[w] \in {"idle", "done"}) /\ Submit

SpecTurns == Init /\ [][TurnsNext]_vars

\* Selections only, served one after the other: no grade, no skip, no count;
\* the table may hold one row more
SelectNext ==
    \/ \E location \in Locations, check_for_ML \in BOOLEAN :
          call_for_location(Server, location, check_for_ML)
    \/ \E course_id \in Courses : call_for_course(Server, course_id)
    \/ count_graded(Server)
    \/ count_pending(Server)
    \/ pool_count(Server)
    \/ fetch(Server)
    \/ save(Server)
    \/ respond(Server)
    \/ pc[Server] = "idle" /\ SubmitSelect

SpecSelect == Init /\ [][SelectNext]_vars

\* ------------------------------------------------------------ the claims

\* What the claims speak of, said without the operators of the code above

Selection(w) == req[w].op \in {"location", "course"}

Returned(w) == pc[w] = "done" /\ Selection(w) /\ result[w].success

NotFound(w) ==
    pc[w] = "done" /\ Selection(w) /\ ~result[w].success /\ result[w].error = "none"

\* The rows of a location an instructor may be given
Pooled(location) ==
    {i \in DOMAIN Submission :
        /\ Submission[i].location = location
        /\ Submission[i].state = "W"
        /\ Submission[i].next_grader_type \in {"IN", "ML"}}

\* graded + pending, as the ML gate counts them
GradedPlusPending(location) ==
    Cardinality({i \in DOMAIN Submission :
        /\ Submission[i].location = location
        /\ \/ Submission[i].state = "F" /\ Submission[i].previous_grader_type = "IN"
           \/ Submission[i].state = "C" /\ Submission[i].next_grader_type = "IN"})

\* C1: under any interleaving of concurrent selection calls no two calls get
\* the same submission: a row that is being graded has exactly one
\* outstanding claim.
C1_OneClaimPerBeingGraded ==
    \A i \in DOMAIN Submission :
        Submission[i].state = "C" => claims[i] = 1

\* C2: when selection calls do not overlap, no call returns an id that an
\* earlier call returned and that was neither graded nor skipped since.
C2_NoSecondClaimSequential ==
    \A i \in SubmissionIds : claims[i] <= 1

\* C2 witness: a call for a location has just returned row j while row i of
\* the same location, handed out by an earlier call, is still being graded.
C2_Witness ==
    \E w \in Workers, i \in DOMAIN Submission :
        /\ Returned(w) /\ req[w].op = "location"
        /\ result[w].sub_id # i
        /\ Submission[i].location = req[w].location
        /\ Submission[i].state = "C" /\ claims[i] = 1
        /\ claims[result[w].sub_id] = 1

\* C3: a call for location L with the ML gate on, made when graded + pending at
\* L is at least MIN_TO_USE_ML, returns not found (False, 0), whatever waits at L.
C3_GateClosed ==
    [][\A w \in Workers :
          (/\ pc[w] \notin {"idle", "done"} /\ pc'[w] = "done"
           /\ req[w].op = "location" /\ req[w].check_for_ML
           /\ GradedPlusPending(req[w].location) >= MIN_TO_USE_ML)
          => (/\ ~result'[w].success /\ result'[w].sub_id = 0
              /\ result'[w].error = "none"
              /\ Submission' = Submission)]_vars

\* C3 witness: not found was returned for a gated location where rows wait.
C3_Witness ==
    \E w \in Workers :
        /\ NotFound(w) /\ req[w].op = "location" /\ req[w].check_for_ML
        /\ GradedPlusPending(req[w].location) >= MIN_TO_USE_ML
        /\ Pooled(req[w].location) # {}

\* C4: whenever a call for location L (made by the view, or by the loops of
\* the course call) returns an id, the row is at L, was waiting with next
\* grader IN or ML when it was picked, and is being graded with next grader IN
\* once the call has returned.
C4_SelectedRow ==
    [][\A w \in Workers :
          /\ (pc[w] = "fetch" /\ pc'[w] = "save") =>
                LET picked == local'[w].to_be_graded IN
                /\ picked.id \in DOMAIN Submission
                /\ picked = Submission[picked.id]
                /\ picked.location = local[w].locations_for_course[local[w].idx]
                /\ picked.state = "W"
                /\ picked.next_grader_type \in {"IN", "ML"}
          /\ (pc[w] # "done" /\ pc'[w] = "done" /\ Selection(w) /\ result'[w].success) =>
                LET id == result'[w].sub_id IN
                /\ pc[w] = "save"
                /\ id = local[w].to_be_graded.id
                /\ Submission'[id].location = local[w].locations_for_course[local[w].idx]
                /\ req[w].op = "location" => Submission'[id].location = req[w].location
                /\ Submission'[id].state = "C"
                /\ Submission'[id].next_grader_type = "IN"]_vars

\* C4 witness: a call for a location has returned a row of that location,
\* which is now being graded by the instructor.
C4_Witness ==
    \E w \in Workers :
        /\ Returned(w) /\ req[w].op = "location"
        /\ Submission[result[w].sub_id].location = req[w].location
        /\ Submission[result[w].sub_id].state = "C"
        /\ Submission[result[w].sub_id].next_grader_type = "IN"
        /\ claims[result[w].sub_id] = 1

\* The locations of a course
LocationsOfCourse(course_id) ==
    {Submission[i].location :
        i \in {j \in DOMAIN Submission : Submission[j].course_id = course_id}}

\* C5: a course call returns a submission exactly when some location of the
\* course has a waiting row with next grader IN or ML, whatever the ML
\* threshold; a course without locations gets not found.
C5_CourseFindsPooled ==
    [][\A w \in Workers :
          (pc[w] # "done" /\ pc'[w] = "done" /\ req'[w].op = "course") =>
             /\ result'[w].error = "none"
             /\ result'[w].success <=>
                   \E location \in LocationsOfCourse(req'[w].course_id) :
                       Pooled(location) # {}
             /\ result'[w].success =>
                   \E location \in LocationsOfCourse(req'[w].course_id) :
                       result'[w].sub_id \in Pooled(location)
             /\ ~result'[w].success => result'[w].sub_id = 0 /\ Submission' = Submission]_vars

\* C5 witness: a course call has returned a row although every location of
\* the course is over the ML threshold: the pass without the gate found it.
C5_Witness ==
    \E w \in Workers :
        /\ Returned(w) /\ req[w].op = "course"
        /\ \A location \in LocationsOfCourse(req[w].course_id) :
              GradedPlusPending(location) >= MIN_TO_USE_ML
        /\ GradedPlusPending(Submission[result[w].sub_id].location) > MIN_TO_USE_ML

\* A save_grade request with every required parameter has just been served
SaveGradeServed(w) ==
    /\ pc[w] = "idle" /\ pc'[w] = "done"
    /\ req'[w].op = "save_grade"
    /\ req'[w].submission_id # 0
    /\ req'[w].score # <<"None">>

Blank(s) == \A k \in DOMAIN s : s[k] = " "

\* An optional sign and one or more decimal digits, blanks around allowed
WellFormedInteger(s) ==
    \E a \in 0..Len(s), b \in 0..Len(s) :
        /\ a < b
        /\ Blank(SubSeq(s, 1, a)) /\ Blank(SubSeq(s, b + 1, Len(s)))
        /\ LET core == SubSeq(s, a + 1, b)
               digits == IF core[1] \in {"+", "-"} THEN Tail(core) ELSE core
           IN /\ digits # <<>>
              /\ \A k \in DOMAIN digits :
                    digits[k] \in {"0", "1", "2", "3", "4", "5", "6", "7", "8", "9"}

\* C6: a skip of a row that is being graded releases the claim: the row waits
\* again, for the ML grader, and no grade record is made.
C6_SkipReleases ==
    [][\A w \in Workers :
          (/\ SaveGradeServed(w) /\ req'[w].skipped
           /\ req'[w].submission_id \in DOMAIN Submission
           /\ Submission[req'[w].submission_id].state = "C")
          => LET id == req'[w].submission_id IN
             /\ result'[w].success
             /\ Submission'[id].state = "W"
             /\ Submission'[id].next_grader_type = "ML"
             /\ claims'[id] = 0
             /\ \A j \in DOMAIN Submission \ {id} : Submission'[j] = Submission[j]
             /\ Grader' = Grader]_vars

\* C6 witness: a skip has succeeded and its row waits for the ML grader,
\* unclaimed.
C6_Witness ==
    \E w \in Workers :
        /\ pc[w] = "done" /\ req[w].op = "save_grade" /\ req[w].skipped
        /\ result[w].success
        /\ req[w].submission_id \in DOMAIN Submission
        /\ Submission[req[w].submission_id].state = "W"
        /\ Submission[req[w].submission_id].next_grader_type = "ML"
        /\ claims[req[w].submission_id] = 0
        /\ Grader = <<>>

\* C7: a grade whose score is not a well-formed integer is refused with the
\* invalid-score error (grade_save_error, "Expected integer score"); no grade
\* record is made and no row changes.
C7_InvalidScore ==
    [][\A w \in Workers :
          (/\ SaveGradeServed(w) /\ ~req'[w].skipped
           /\ ~WellFormedInteger(req'[w].score))
          => /\ ~result'[w].success
             /\ result'[w].error = "grade_save_error: Expected integer score"
             /\ result'[w].commits = 0
             /\ Grader' = Grader
             /\ Submission' = Submission
             /\ claims' = claims]_vars

\* C7 witness: the grade of a row that is being graded was refused for its
\* score, and the row is still being graded.
C7_Witness ==
    \E w \in Workers :
        /\ pc[w] = "done" /\ req[w].op = "save_grade" /\ ~req[w].skipped
        /\ ~WellFormedInteger(req[w].score)
        /\ result[w].error = "grade_save_error: Expected integer score"
        /\ req[w].submission_id \in DOMAIN Submission
        /\ Submission[req[w].submission_id].state = "C"
        /\ claims[req[w].submission_id] = 1

\* C8: when the grade store fails (no grade record is stored), the grade
\* request answers with an error after that one call of the store, and no
\* row changes: a row that was being graded still is.
C8_CommitFails ==
    [][\A w \in Workers :
          (/\ SaveGradeServed(w) /\ ~req'[w].skipped
           /\ WellFormedInteger(req'[w].score)
           /\ Grader' = Grader)
          => /\ ~result'[w].success
             /\ result'[w].error = "grade_save_error: Internal error"
             /\ result'[w].commits = 1
             /\ Submission' = Submission
             /\ claims' = claims]_vars

\* C8 witness: the grade of a claimed row got the error of a failed store; the
\* row is still being graded and there is no grade record.
C8_Witness ==
    \E w \in Workers :
        /\ pc[w] = "done" /\ req[w].op = "save_grade" /\ ~req[w].skipped
        /\ result[w].error = "grade_save_error: Internal error"
        /\ result[w].commits = 1
        /\ req[w].submission_id \in DOMAIN Submission
        /\ Submission[req[w].submission_id].state = "C"
        /\ claims[req[w].submission_id] = 1
        /\ Grader = <<>>

\* C9: a skip of an id that is not in the table fails with SubmissionNotFound
\* and changes no row.
C9_SkipUnknownId ==
    [][\A w \in Workers :
          (/\ SaveGradeServed(w) /\ req'[w].skipped
           /\ req'[w].submission_id \notin DOMAIN Submission)
          => /\ ~result'[w].success
             /\ result'[w].error = "SubmissionNotFound"
             /\ Submission' = Submission
             /\ Grader' = Grader
             /\ claims' = claims]_vars

\* C9 witness: a skip of an id the table does not hold was refused, while the
\* table holds a row that is being graded.
C9_Witness ==
    \E w \in Workers :
        /\ pc[w] = "done" /\ req[w].op = "save_grade" /\ req[w].skipped
        /\ req[w].submission_id \notin DOMAIN Submission
        /\ result[w].error = "SubmissionNotFound"
        /\ \E i \in DOMAIN Submission : Submission[i].state = "C"

C11_Counts ==
    [][\A w \in Workers :
          /\ (pc[w] = "idle" /\ pc'[w] = "counts_pending") => Submission' = Submission
          /\ (pc[w] = "counts_pending" /\ pc'[w] = "done") =>
                LET location == req[w].location IN
                /\ result'[w].graded = Cardinality({i \in DOMAIN Submission :
                      /\ Submission[i].location = location
                      /\ Submission[i].state = "F"
                      /\ Submission[i].previous_grader_type = "IN"})
                /\ result'[w].pending = Cardinality({i \in DOMAIN Submission :
                      /\ Submission[i].location = location
                      /\ Submission[i].next_grader_type = "IN"
                      /\ Submission[i].state \in {"C", "W"}})
                /\ Submission' = Submission
                /\ Grader' = Grader]_vars

\* C11 witness: the counts of a location came back as one graded and one
\* pending, the pending row being one that waits.
C11_Witness ==
    \E w \in Workers :
        /\ pc[w] = "done" /\ req[w].op = "counts"
        /\ result[w].graded = 1 /\ result[w].pending = 1
        /\ \E i \in DOMAIN Submission :
              /\ Submission[i].location = req[w].location
              /\ Submission[i].state = "W" /\ Submission[i].next_grader_type = "IN"

\* C12: a call for location L returns a row of the pool of L (waiting, next
\* grader IN or ML) whenever that pool is not empty and the gate is off or
\* graded + pending (finished with previous grader IN, being graded with next
\* grader IN) is below MIN_TO_USE_ML; rows that wait for the instructor do not
\* count toward the gate.
C12_GateOpen ==
    [][\A w \in Workers :
          (/\ pc[w] \notin {"idle", "done"} /\ pc'[w] = "done"
           /\ req[w].op = "location"
           /\ Pooled(req[w].location) # {}
           /\ ~req[w].check_for_ML \/ GradedPlusPending(req[w].location) < MIN_TO_USE_ML)
          => (/\ result'[w].success
              /\ result'[w].error = "none"
              /\ result'[w].sub_id \in Pooled(req[w].location))]_vars

\* C12 witness: a gated call for a location has returned a row while another
\* row of the location waits for the instructor: the waiting rows alone reach
\* MIN_TO_USE_ML, and the gate was open all the same.
C12_Witness ==
    \E w \in Workers, j \in DOMAIN Submission :
        /\ Returned(w) /\ req[w].op = "location" /\ req[w].check_for_ML
        /\ j # result[w].sub_id
        /\ Submission[j].location = req[w].location
        /\ Submission[j].state = "W" /\ Submission[j].next_grader_type = "IN"
        /\ Cardinality({i \in DOMAIN Submission :
               /\ Submission[i].location = req[w].location
               /\ Submission[i].next_grader_type = "IN"}) >= MIN_TO_USE_ML + 1

\* C13: a course call tries every location of the course with the ML gate on,
\* in the order the locations were listed, before it tries any without the
\* gate.  If some location is below the threshold and has a pooled row, the
\* row returned is of the first such location, even when an earlier, ML-gated
\* location has pooled rows; otherwise the row is of the first location with a
\* pooled row, found by the pass without the gate; a location without pooled
\* rows is passed over without error.
C13_TwoPassOrder ==
    [][\A w \in Workers :
          (pc[w] # "done" /\ pc'[w] = "done" /\ req'[w].op = "course") =>
             LET locs == local[w].locations_for_course
                 First(S) == CHOOSE k \in S : \A j \in S : k <= j
                 below == {k \in DOMAIN locs :
                              /\ GradedPlusPending(locs[k]) < MIN_TO_USE_ML
                              /\ Pooled(locs[k]) # {}}
                 any == {k \in DOMAIN locs : Pooled(locs[k]) # {}}
             IN /\ {locs[k] : k \in DOMAIN locs} = LocationsOfCourse(req'[w].course_id)
                /\ Len(locs) = Cardinality(LocationsOfCourse(req'[w].course_id))
                /\ result'[w].error = "none"
                /\ IF below # {}
                   THEN /\ result'[w].success
                        /\ local[w].check_for_ML /\ local[w].idx = First(below)
                        /\ result'[w].sub_id \in Pooled(locs[First(below)])
                   ELSE IF any # {}
                   THEN /\ result'[w].success
                        /\ ~local[w].check_for_ML /\ local[w].idx = First(any)
                        /\ result'[w].sub_id \in Pooled(locs[First(any)])
                   ELSE ~result'[w].success /\ result'[w].sub_id = 0]_vars

\* C13 witness: the gated pass of a course call has picked a row of the second
\* location it listed, having passed over the first, which is ML-gated and has
\* a pooled row.
C13_Witness ==
    \E w \in Workers :
        /\ pc[w] = "save" /\ req[w].op = "course"
        /\ local[w].check_for_ML /\ local[w].idx = 2
        /\ local[w].to_be_graded.location = local[w].locations_for_course[2]
        /\ GradedPlusPending(local[w].locations_for_course[1]) >= MIN_TO_USE_ML
        /\ Pooled(local[w].locations_for_course[1]) # {}

\* A save_grade request has just been served
SaveGradeStep(w) == pc[w] = "idle" /\ pc'[w] = "done" /\ req'[w].op = "save_grade"

\* C14: the state of a row changes only from waiting to being graded (by a
\* selection), from being graded to finished (by a grade that succeeds) and
\* from being graded to waiting (by a skip); a grade or a skip never moves a
\* row that is not being graded, a finished row never changes state and is
\* never returned by a selection, and no row is removed.
C14_AllowedEdges ==
    [][/\ Len(Submission') >= Len(Submission)
       /\ \A i \in DOMAIN Submission : i \in DOMAIN Submission' =>
             LET a == Submission[i].state
                 b == Submission'[i].state
             IN a # b =>
                  \/ /\ a = "W" /\ b = "C"
                     /\ \E w \in Workers :
                           /\ Selection(w) /\ pc[w] = "save" /\ pc'[w] # "save"
                           /\ local[w].to_be_graded.id = i
                  \/ /\ a = "C" /\ b = "F"
                     /\ \E w \in Workers :
                           /\ SaveGradeStep(w) /\ ~req'[w].skipped
                           /\ req'[w].submission_id = i /\ result'[w].success
                  \/ /\ a = "C" /\ b = "W"
                     /\ \E w \in Workers :
                           /\ SaveGradeStep(w) /\ req'[w].skipped
                           /\ req'[w].submission_id = i /\ result'[w].success
       /\ \A w \in Workers :
             (/\ SaveGradeStep(w)
              /\ req'[w].submission_id \in DOMAIN Submission
              /\ Submission[req'[w].submission_id].state # "C")
             => Submission' = Submission
       /\ \A w \in Workers :
             (pc[w] # "done" /\ pc'[w] = "done" /\ Selection(w) /\ result'[w].success)
             => Submission[result'[w].sub_id].state # "F"]_vars

\* C15: a call for a location picks deterministically: the row it returns is
\* the pooled row of the location with the lowest id, so two calls from the
\* same table return the same id.
C15_LowestIdPicked ==
    [][\A w \in Workers :
          (/\ pc[w] # "done" /\ pc'[w] = "done"
           /\ req[w].op = "location" /\ result'[w].success)
          => \A j \in Pooled(req[w].location) : result'[w].sub_id <= j]_vars

\* C16: at a location that is only selected from with the ML gate on, graded +
\* pending (finished with previous grader IN, being graded with next grader
\* IN) starts at most MIN_TO_USE_ML and never exceeds it, under any
\* interleaving of concurrent gated selections, grades and skips.
C16_GatedSumBounded ==
    \A location \in Locations : GradedPlusPending(location) <= MIN_TO_USE_ML

\* One worker serves every request: no two requests overlap
OneWorker == Cardinality({w \in Workers : pc[w] # "off"}) = 1

\* C16, amended: the same bound, when the gated selections, the grades and the
\* skips are served one after the other (by a pool of one worker) and the
\* grades and skips are of rows that are being graded.
C16_GatedSumBoundedSerial ==
    OneWorker =>
        \A location \in Locations : GradedPlusPending(location) <= MIN_TO_USE_ML

\* C16 witness: a location has reached MIN_TO_USE_ML with a row that was
\* selected and then graded, and the gated selection that followed was refused
\* although a row waits there.
C16_Witness ==
    \E w \in Workers :
        /\ OneWorker
        /\ NotFound(w) /\ req[w].op = "location" /\ req[w].check_for_ML
        /\ GradedPlusPending(req[w].location) = MIN_TO_USE_ML
        /\ Pooled(req[w].location) # {}
        /\ \E k \in DOMAIN Grader :
              Submission[Grader[k].submission_id].location = req[w].location

\* C17: a row that a skip released (it waits, with next grader ML) is still in
\* the instructor pool: the skip leaves it pooled, and a later call for its
\* location, with the gate off or below the threshold, returns a pooled row,
\* which is the released row when that row is the first (or the only) one the
\* pool yields, and sets it back to being graded with next grader IN.
C17_SkippedRowSelectable ==
    [][\A w \in Workers :
          /\ (SaveGradeStep(w) /\ req'[w].skipped /\ result'[w].success) =>
                LET i == req'[w].submission_id IN
                /\ Submission'[i].state = "W" /\ Submission'[i].next_grader_type = "ML"
                /\ Submission'[i].location = Submission[i].location
          /\ \A i \in DOMAIN Submission :
                (/\ pc[w] \notin {"idle", "done"} /\ pc'[w] = "done"
                 /\ req[w].op = "location"
                 /\ Submission[i].location = req[w].location
                 /\ Submission[i].state = "W" /\ Submission[i].next_grader_type = "ML"
                 /\ ~req[w].check_for_ML
                       \/ GradedPlusPending(req[w].location) < MIN_TO_USE_ML)
                => /\ result'[w].success
                   /\ result'[w].sub_id \in Pooled(req[w].location)
                   /\ local[w].to_be_graded.id = i => result'[w].sub_id = i
                   /\ Pooled(req[w].location) = {i} => result'[w].sub_id = i
                   /\ Submission'[result'[w].sub_id].state = "C"
                   /\ Submission'[result'[w].sub_id].next_grader_type = "IN"]_vars

\* C17 witness: worker v has skipped row i, which it released, and has its
\* response ready; the call for the location that worker w served next has
\* returned row i again, and the row is being graded with next grader IN.
C17_Witness ==
    \E w \in Workers, v \in Workers :
        /\ pc[v] = "done" /\ req[v].op = "save_grade" /\ req[v].skipped
        /\ result[v].success
        /\ Returned(w) /\ req[w].op = "location"
        /\ result[w].sub_id = req[v].submission_id
        /\ Submission[result[w].sub_id].state = "C"
        /\ Submission[result[w].sub_id].next_grader_type = "IN"
        /\ claims[result[w].sub_id] = 1

\* Worker w takes a step of a selection call
SelectionStep(w) ==
    \/ pc[w] = "idle" /\ pc'[w] # "idle" /\ req'[w].op \in {"location", "course"}
    \/ pc[w] \in {"count_graded", "count_pending", "pool_count", "fetch", "save"}
          /\ pc'[w] # pc[w]

\* C18: a selection call changes at most one row: when it returns a row, only
\* that row is modified, and only its state and its next grader; when it
\* returns not found, every field of every row is unchanged.
C18_FrameEffect ==
    [][\A w \in Workers : SelectionStep(w) =>
          /\ DOMAIN Submission' = DOMAIN Submission
          /\ Grader' = Grader
          /\ IF pc'[w] = "done" /\ result'[w].success
             THEN LET id == result'[w].sub_id IN
                  /\ \A j \in DOMAIN Submission \ {id} : Submission'[j] = Submission[j]
                  /\ Submission'[id] =
                        [Submission[id] EXCEPT
                            !.state = Submission'[id].state,
                            !.next_grader_type = Submission'[id].next_grader_type]
             ELSE Submission' = Submission]_vars

\* C19: save_grade looks at the skip before it validates the score: a request
\* with skipped = True never gets the invalid-score error and never makes a
\* grade record, whatever its score; a score is validated and a grade committed
\* only when skipped is false.
C19_SkipBeforeValidation ==
    [][\A w \in Workers : SaveGradeStep(w) =>
          /\ req'[w].skipped =>
                /\ result'[w].error # "grade_save_error: Expected integer score"
                /\ result'[w].commits = 0
                /\ Grader' = Grader
          /\ (\/ result'[w].error = "grade_save_error: Expected integer score"
              \/ result'[w].commits > 0
              \/ Grader' # Grader) => ~req'[w].skipped]_vars

\* C19 witness: a skip that came with a score that is no integer has
\* succeeded: its row waits for the ML grader and there is no grade record.
C19_Witness ==
    \E w \in Workers :
        /\ pc[w] = "done" /\ req[w].op = "save_grade" /\ req[w].skipped
        /\ req[w].score = <<"a", "b", "c">>
        /\ result[w].success /\ result[w].commits = 0
        /\ req[w].submission_id \in DOMAIN Submission
        /\ Submission[req[w].submission_id].state = "W"
        /\ Submission[req[w].submission_id].next_grader_type = "ML"
        /\ Grader = <<>>

\* The pooled rows of a course
PooledOfCourse(course_id) ==
    {i \in DOMAIN Submission :
        /\ Submission[i].course_id = course_id
        /\ Submission[i].state = "W"
        /\ Submission[i].next_grader_type \in {"IN", "ML"}}

\* How far a selection call is: the pass, the place in the list of locations,
\* the query of the call for that location
Progress(w) ==
    <<IF local[w].check_for_ML THEN 1 ELSE 2,
      local[w].idx,
      CASE pc[w] = "count_graded" -> 1 [] pc[w] = "count_pending" -> 2
        [] pc[w] = "pool_count" -> 3 [] pc[w] = "fetch" -> 4 [] pc[w] = "save" -> 5>>

Before(p, q) ==
    \/ p[1] < q[1]
    \/ p[1] = q[1] /\ p[2] < q[2]
    \/ p[1] = q[1] /\ p[2] = q[2] /\ p[3] < q[3]

\* C20: with no skips, and no row arriving during a call, every course call
\* that returns a row takes exactly one row out of the pool of the course and
\* no other step of a selection changes the pool, so the calls that returned a
\* row are as many as the rows that left the pool: a pool of k gives at most k
\* successes before not found.  Every course call ends within two passes over
\* its list of locations: it only moves forward in the list, from the pass with
\* the gate to the pass without.
C20_PoolDecreases ==
    [][\A w \in Workers : (SelectionStep(w) /\ req'[w].op = "course") =>
          LET pool == Cardinality(PooledOfCourse(req'[w].course_id))
              pool_after == Cardinality({i \in DOMAIN Submission' :
                                /\ Submission'[i].course_id = req'[w].course_id
                                /\ Submission'[i].state = "W"
                                /\ Submission'[i].next_grader_type \in {"IN", "ML"}})
          IN /\ IF pc'[w] = "done" /\ result'[w].success
                THEN pool_after = pool - 1
                ELSE pool_after = pool
             /\ (pc'[w] = "done" /\ ~result'[w].success) => pool = 0
             /\ \A i \in DOMAIN Submission' : claims'[i] <= 1
             /\ Cardinality({i \in DOMAIN Submission' :
                    /\ Submission'[i].course_id = req'[w].course_id
                    /\ claims'[i] = 1}) + pool_after
                   = Cardinality({i \in DOMAIN Submission' :
                        /\ Submission'[i].course_id = req'[w].course_id
                        /\ Submission'[i].next_grader_type \in {"IN", "ML"}})
             /\ (pc[w] # "idle" /\ pc'[w] # "done") =>
                   /\ local'[w].locations_for_course = local[w].locations_for_course
                   /\ local'[w].idx \in 1..Len(local[w].locations_for_course)
                   /\ Before(Progress(w), Progress(w)')]_vars

\* C20 witness: a course call has returned not found, after two passes over
\* the locations of the course, because two rows of the course were handed out
\* and none is left in its pool.
C20_Witness ==
    \E w \in Workers :
        /\ NotFound(w) /\ req[w].op = "course"
        /\ PooledOfCourse(req[w].course_id) = {}
        /\ Cardinality({i \in DOMAIN Submission :
               /\ Submission[i].course_id = req[w].course_id
               /\ Submission[i].state = "C" /\ claims[i] = 1}) >= 2

====
